---- MODULE Spec2Model ----
(***************************************************************************)
(* Model of mcphost's tool broker (internal/tools/mcp.go), of the agent    *)
(* loop Agent.GenerateWithLoop (internal/agent/agent.go) and of the main   *)
(* program around them (cmd: configuration, session, exit).                *)
(*                                                                         *)
(* Spec       one agent and one run of the loop                            *)
(* SinkSpec   the same run with every combination of handlers              *)
(* BrokerSpec the program from its configuration to its exit: validation,  *)
(*            load, tool invocations, Close                                *)
(* DefaultBudgetSpec  an agent made with MaxSteps = 0 and a model that     *)
(*            always requests a tool                                       *)
(* UnlimitedSpec  the program run with -p and --max-steps 0 and that model *)
(* SessionSpec  the interactive session: prompts, slash commands, one run  *)
(*            of the loop per prompt                                       *)
(*                                                                         *)
(* Strings are sequences of fragments, so that fmt.Sprintf and += are      *)
(* concatenation (\o) and the empty string is <<>>.                        *)
(***************************************************************************)
EXTENDS Integers, Sequences, FiniteSets, TLC

\* ---------------------------------------------------------------- bounds
\* Largest MaxSteps value an AgentConfig is given.
MaxStepsCfg == 2
\* Number of tool-call requests the model issues during one run.
MaxToolCalls == 2

\* ------------------------------------------------------ program constants
\* agent.go:158-160: MaxSteps == 0 is replaced by 20.
DefaultMaxSteps == 20

EmptyStr == <<>>

\* agent.go:448
MaxStepsReachedText == <<"Maximum number of steps reached.">>

\* ------------------------------------------------------------- messages
\* schema.Message, restricted to the fields the loop reads and writes.
Message(role, content, toolCalls, toolCallID) ==
    [Role |-> role, Content |-> content, ToolCalls |-> toolCalls, ToolCallID |-> toolCallID]

NoID == 0

SystemMessage(content) == Message("system", content, <<>>, NoID)
UserMessage(content) == Message("user", content, <<>>, NoID)
AssistantMessage(content, toolCalls) == Message("assistant", content, toolCalls, NoID)
ToolMessage(content, toolCallID) == Message("tool", content, <<>>, toolCallID)

\* ------------------------------------------------------------ tool broker
FsServer == <<"fs">>
ReadFile == <<"read_file">>
DeleteFile == <<"delete_file">>

\* Two providers that both expose a tool "run"; provider "a" also lists a
\* tool whose raw name already carries the prefix "a__".
ServerA == <<"a">>
ServerB == <<"b">>
RunTool == <<"run">>
PrefixedTool == <<"a", "__", "list">>

\* config.MCPServerConfig
ServerConfig(command, url, allowed, excluded) ==
    [Command |-> command, URL |-> url, Headers |-> <<>>,
     AllowedTools |-> allowed, ExcludedTools |-> excluded]

\* The same server with a list of "Key: Value" header strings.
WithHeaders(serverConfig, headers) == [serverConfig EXCEPT !.Headers = headers]

\* The configurations explored: one stdio provider "fs", with an allow-list
\* or with a deny-list.
ConfigChoices ==
    { [s \in {FsServer} |-> ServerConfig(<<"fs-server">>, EmptyStr, <<ReadFile>>, <<>>)],
      [s \in {FsServer} |-> ServerConfig(<<"fs-server">>, EmptyStr, <<>>, <<DeleteFile>>)] }

\* What each provider answers to list-tools.
ProviderTools(server) ==
    IF server = ServerA THEN <<RunTool, PrefixedTool>>
    ELSE IF server = ServerB THEN <<RunTool>>
    ELSE <<ReadFile, DeleteFile>>

SeqContains(seq, x) == \E i \in 1..Len(seq) : seq[i] = x

\* Mutant of shouldIncludeTool: the deny-list is not consulted.
shouldIncludeToolIgnoringExcluded(toolName, serverConfig) ==
    IF Len(serverConfig.AllowedTools) > 0
    THEN SeqContains(serverConfig.AllowedTools, toolName)
    ELSE TRUE

\* Mutant of shouldIncludeTool: the deny-list is consulted first.
shouldIncludeToolDenyFirst(toolName, serverConfig) ==
    IF SeqContains(serverConfig.ExcludedTools, toolName) THEN FALSE
    ELSE IF Len(serverConfig.AllowedTools) > 0
         THEN SeqContains(serverConfig.AllowedTools, toolName)
         ELSE TRUE

shouldIncludeTool(toolName, serverConfig) ==
    IF Len(serverConfig.AllowedTools) > 0
    THEN SeqContains(serverConfig.AllowedTools, toolName)
    ELSE IF Len(serverConfig.ExcludedTools) > 0
         THEN ~SeqContains(serverConfig.ExcludedTools, toolName)
         ELSE TRUE

\* fmt.Sprintf("%s__%s", serverName, mcpTool.Name)
QualifiedName(serverName, rawName) == serverName \o <<"__">> \o rawName

\* tools.MCPTool: the client it calls, the raw name it sends, the name it
\* is registered under.
MCPTool(serverName, rawName) ==
    [client |-> serverName, toolInfo |-> rawName, name |-> QualifiedName(serverName, rawName)]

RECURSIVE ConvertTools(_, _, _, _)
\* mcp.go:118-130, the loop over toolsResult.Tools
ConvertTools(serverName, serverConfig, listed, i) ==
    IF i > Len(listed) THEN <<>>
    ELSE (IF shouldIncludeTool(listed[i], serverConfig)
          THEN <<MCPTool(serverName, listed[i])>>
          ELSE <<>>) \o ConvertTools(serverName, serverConfig, listed, i + 1)

\* createMCPClient's choice of transport; "" when the config names neither.
Transport(serverConfig) ==
    IF serverConfig.Command # EmptyStr THEN "stdio"
    ELSE IF serverConfig.URL # EmptyStr THEN "sse"
    ELSE "invalid"

\* What a provider does while it is loaded: all goes well, the client cannot
\* be created, the created SSE client fails to start, the initialize exchange
\* fails, the tool listing fails.
LoadOutcomes == {"ok", "createFail", "startFail", "initFail", "listFail"}

\* createMCPClient: whether a client was created at all (`opened`), whether
\* it is returned to LoadTools (`returned`), and the headers the client was
\* given to attach to its requests.  A stdio client that fails to start is
\* not created; an SSE client is created first and started next.  Both
\* constructors are called without any header: NewStdioMCPClient(Command,
\* nil, Args...) and NewSSEMCPClient(URL).
createMCPClient(serverConfig, outcome) ==
    IF Transport(serverConfig) = "invalid" \/ outcome = "createFail"
    THEN [opened |-> FALSE, returned |-> FALSE, headers |-> <<>>]
    ELSE IF outcome = "startFail"
         THEN [opened |-> Transport(serverConfig) = "sse", returned |-> FALSE, headers |-> <<>>]
         ELSE [opened |-> TRUE, returned |-> TRUE, headers |-> <<>>]

\* A connection: the Close calls it got, whether one of them returned an
\* error, the raw tool names of the call-tool requests it was sent, and the
\* headers every request over it carries.
NewConn == [closes |-> 0, closeFailed |-> FALSE, requests |-> <<>>, headers |-> <<>>]

\* The connections `cs` and a new one to server s.
Opened(cs, s) == [x \in DOMAIN cs \cup {s} |-> IF x = s THEN NewConn ELSE cs[x]]

RECURSIVE LoadTools(_, _, _, _, _)
\* LoadTools over the servers in map-iteration order `order`; outcome[s] is
\* what provider s does.  m is the manager with the connections made so far;
\* the result adds the error flag.
LoadTools(config, order, outcome, i, m) ==
    IF i > Len(order)
    THEN [clients |-> m.clients, tools |-> m.tools, conns |-> m.conns, err |-> FALSE]
    ELSE LET s == order[i]
             sc == config[s]
             c == createMCPClient(sc, outcome[s])
             cn == IF c.opened
                   THEN [Opened(m.conns, s) EXCEPT ![s].headers = c.headers]
                   ELSE m.conns
         IN  IF ~c.returned
             THEN [clients |-> m.clients, tools |-> m.tools, conns |-> cn, err |-> TRUE]
             ELSE LET cl == m.clients \cup {s}
                  IN  IF outcome[s] \in {"initFail", "listFail"}
                      THEN [clients |-> cl, tools |-> m.tools, conns |-> cn, err |-> TRUE]
                      ELSE LoadTools(config, order, outcome, i + 1,
                               [clients |-> cl,
                                tools |-> m.tools \o ConvertTools(s, sc, ProviderTools(s), 1),
                                conns |-> cn])

RECURSIVE Close(_, _, _, _)
\* MCPToolManager.Close over the tracked clients in map-iteration order
\* `order`, when closing the clients in `failing` fails: the connections
\* afterwards and the error returned.
Close(order, failing, i, cs) ==
    IF i > Len(order) THEN [conns |-> cs, err |-> EmptyStr]
    ELSE LET name == order[i]
             closed == [cs EXCEPT ![name].closes = @ + 1, ![name].closeFailed = name \in failing]
         IN  IF name \in failing
             THEN [conns |-> closed,
                   err |-> <<"failed to close client ">> \o name \o <<": ", "close failed">>]
             ELSE Close(order, failing, i + 1, closed)

\* Config.Validate returns nil: no server has both lists.
Validate(servers) ==
    \A serverName \in DOMAIN servers :
        ~(Len(servers[serverName].AllowedTools) > 0 /\ Len(servers[serverName].ExcludedTools) > 0)

\* All orders in which Go may iterate a map with the given key set.
Orders(keys) ==
    { o \in [1..Cardinality(keys) -> keys] : \A i, j \in 1..Cardinality(keys) : o[i] = o[j] => i = j }

\* ------------------------------------------------------------ environment
\* Tool-call requests the model may issue: a registered tool with a JSON
\* object as arguments, the same tool with arguments that do not parse, and
\* a tool the provider lists but the allow-list or deny-list keeps out of the
\* catalogue.
ValidArgs == <<"{\"path\":\"/tmp/x\"}">>
InvalidArgs == <<"{">>

ToolRequests ==
    { [Name |-> QualifiedName(FsServer, ReadFile), Arguments |-> ValidArgs],
      [Name |-> QualifiedName(FsServer, ReadFile), Arguments |-> InvalidArgs],
      [Name |-> QualifiedName(FsServer, DeleteFile), Arguments |-> ValidArgs] }

\* schema.ToolCall with Function.Name and Function.Arguments flattened.
ToolCall(id, req) == [ID |-> id, Name |-> req.Name, Arguments |-> req.Arguments]

Contents == {EmptyStr, <<"text">>}

\* The responses model.Generate may return when the model has already issued
\* `issued` tool calls: ids are fresh, at most MaxToolCalls calls per run.
Responses(issued) ==
    { AssistantMessage(c, [i \in 1..n |-> ToolCall(issued + i, f[i])]) :
        c \in Contents, n \in 0..(MaxToolCalls - issued), f \in [1..MaxToolCalls -> ToolRequests] }

GenerateErrors == {<<"api error">>}

\* mcp.CallToolResult as InvokableRun reads it, or a transport error.
TextContent(text) == [type |-> "text", Text |-> text]
CallToolOk(content, isError) == [err |-> EmptyStr, Content |-> content, IsError |-> isError]
CallToolErr(e) == [err |-> e, Content |-> <<>>, IsError |-> FALSE]

ProviderAnswers ==
    { CallToolOk(<<TextContent(<<"out">>)>>, FALSE),
      CallToolOk(<<TextContent(<<"denied">>)>>, TRUE),
      CallToolErr(<<"context canceled">>) }

\* json.Unmarshal([]byte(argumentsInJSON), &args) succeeds
ParsesAsObject(argumentsInJSON) == argumentsInJSON = ValidArgs

RECURSIVE ResultText(_, _)
\* mcp.go:70-75
ResultText(content, i) ==
    IF i > Len(content) THEN EmptyStr
    ELSE (IF content[i].type = "text" THEN content[i].Text \o <<" ">> ELSE EmptyStr)
         \o ResultText(content, i + 1)

\* MCPTool.InvokableRun: `sent` tells whether a call-tool request went out.
InvokableRun(t, argumentsInJSON, answer) ==
    IF ~ParsesAsObject(argumentsInJSON)
    THEN [output |-> EmptyStr, err |-> <<"failed to parse arguments: ", "unexpected end of JSON input">>,
          sent |-> FALSE]
    ELSE IF answer.err # EmptyStr
         THEN [output |-> EmptyStr, err |-> <<"failed to call tool: ">> \o answer.err, sent |-> TRUE]
         ELSE [output |-> ResultText(answer.Content, 1), err |-> EmptyStr, sent |-> TRUE]

\* ------------------------------------------------------------------ state
VARIABLES
    config,           \* agent.AgentConfig: MCPConfig, SystemPrompt, MaxSteps
    agentState,       \* "none" before NewAgent, then "ready" or "failed"
    clients,          \* MCPToolManager.clients: the servers with a connection
    tools,            \* MCPToolManager.tools
    maxSteps,         \* Agent.maxSteps
    systemPrompt,     \* Agent.systemPrompt
    pc,               \* position of GenerateWithLoop
    messages,         \* the caller's slice
    handlers,         \* the handlers that are not nil
    workingMessages,  \* GenerateWithLoop's working copy
    toolMap,          \* GenerateWithLoop's name -> tool map
    step,             \* the loop counter
    response,         \* the response of the current step
    tcIdx,            \* index of the tool call being handled
    toolOut,          \* text and error flag of the tool call just handled
    ret,              \* what GenerateWithLoop returned
    inflight,         \* indexes of the tool calls whose InvokableRun is running
    issued,           \* tool calls the model has requested so far
    trace,            \* what the loop did, in execution order
    source,           \* where the server configuration comes from: "file" or "script"
    mainPc,           \* position of the main program
    conns,            \* the connections created so far, by server name
    closeErr,         \* what MCPToolManager.Close returned
    lastInvocation,   \* the last tool invocation of the session
    flags,            \* the command line: --max-steps and --message-window
    sessionLog,       \* every message the interactive session put in its history
    lastInput         \* what cli.GetPrompt returned last

vars == <<config, agentState, clients, tools, maxSteps, systemPrompt, pc, messages, handlers,
          workingMessages, toolMap, step, response, tcIdx, toolOut, ret, inflight, issued, trace,
          source, mainPc, conns, closeErr, lastInvocation, flags, sessionLog, lastInput>>

cliVars == <<flags, sessionLog, lastInput>>
brokerVars == <<config, agentState, clients, tools, maxSteps, systemPrompt,
                source, mainPc, conns, closeErr, lastInvocation, cliVars>>
loopVars == <<pc, messages, handlers, workingMessages, toolMap, step, response, tcIdx, toolOut,
              ret, inflight, trace>>
callVars == <<messages, handlers, toolMap>>

NilMsg == Message("nil", EmptyStr, <<>>, NoID)
NoErr == EmptyStr
NoRet == [msg |-> NilMsg, err |-> NoErr]
NoOut == [result |-> EmptyStr, isError |-> FALSE]

AllHandlers == {"onToolCall", "onToolResult", "onResponse", "onToolCallContent"}
HandlerChoices == {AllHandlers, {}}

SystemPrompts == {EmptyStr, <<"be brief">>}

\* Histories a caller passes.
CallerHistories ==
    { <<UserMessage(<<"hi">>)>>,
      <<SystemMessage(<<"old prompt">>), UserMessage(<<"hi">>)>> }

\* One entry of the trace: what was done, in which step, for which tool call
\* of the step's response (0 when for none), with which value.
Entry(op, idx, val) == [op |-> op, step |-> step, idx |-> idx, val |-> val]

NoInvocation == [name |-> EmptyStr, arguments |-> EmptyStr, sent |-> <<>>]

\* GetPrompt has not returned yet.
NoInput == <<"<no input>">>

\* part_000:84 and 97: the defaults of --message-window and --max-steps.
DefaultMessageWindow == 40
DefaultFlags == [MaxSteps |-> 0, MessageWindow |-> DefaultMessageWindow]

\* Nothing is loaded and GenerateWithLoop has not been called.
NothingRun ==
    /\ agentState = "none"
    /\ clients = {}
    /\ tools = <<>>
    /\ conns = <<>>
    /\ closeErr = EmptyStr
    /\ lastInvocation = NoInvocation
    /\ maxSteps = 0
    /\ systemPrompt = EmptyStr
    /\ pc = "idle"
    /\ messages = <<>>
    /\ handlers = {}
    /\ workingMessages = <<>>
    /\ toolMap = <<>>
    /\ step = 0
    /\ response = NilMsg
    /\ tcIdx = 0
    /\ toolOut = NoOut
    /\ ret = NoRet
    /\ inflight = {}
    /\ issued = 0
    /\ trace = <<>>
    /\ sessionLog = <<>>
    /\ lastInput = NoInput

\* An agent configuration, read from a valid file; MaxSteps is below 1 or one
\* of 1..MaxStepsCfg.
Init ==
    /\ config \in [MCPServers : ConfigChoices, SystemPrompt : SystemPrompts,
                   MaxSteps : {-1} \cup 1..MaxStepsCfg]
    /\ source = "file"
    /\ mainPc = "configured"
    /\ flags = DefaultFlags
    /\ NothingRun

\* Mutant of EffectiveMaxSteps: a MaxSteps of 0 is taken as it is.
EffectiveMaxStepsNoDefault(cfgMaxSteps) == cfgMaxSteps

\* agent.go:157-160
EffectiveMaxSteps(cfgMaxSteps) == IF cfgMaxSteps = 0 THEN DefaultMaxSteps ELSE cfgMaxSteps

\* NewAgent: load the tools, then fix maxSteps and systemPrompt.  A failed
\* load returns no agent; the manager it filled is dropped as it is.
NewAgent ==
    /\ mainPc = "configured"
    /\ agentState = "none"
    /\ \E order \in Orders(DOMAIN config.MCPServers),
          outcome \in [DOMAIN config.MCPServers -> LoadOutcomes] :
          LET r == LoadTools(config.MCPServers, order, outcome, 1,
                       [clients |-> {}, tools |-> <<>>, conns |-> <<>>])
          IN  /\ clients' = r.clients
              /\ tools' = r.tools
              /\ conns' = r.conns
              /\ IF r.err
                 THEN /\ agentState' = "failed"
                      /\ mainPc' = "loadError"
                      /\ UNCHANGED <<maxSteps, systemPrompt>>
                 ELSE /\ agentState' = "ready"
                      /\ mainPc' = "session"
                      /\ maxSteps' = EffectiveMaxSteps(config.MaxSteps)
                      /\ systemPrompt' = config.SystemPrompt
    /\ UNCHANGED <<config, source, closeErr, lastInvocation, cliVars, loopVars, issued>>

\* Mutant of WithSystemPrompt: the prompt is prepended whatever the history
\* starts with.
WithSystemPromptAlways(prompt, msgs) ==
    IF prompt # EmptyStr THEN <<SystemMessage(prompt)>> \o msgs ELSE msgs

\* agent.go:357-368
WithSystemPrompt(prompt, msgs) ==
    IF prompt # EmptyStr /\ ~(Len(msgs) > 0 /\ msgs[1].Role = "system")
    THEN <<SystemMessage(prompt)>> \o msgs
    ELSE msgs

\* agent.go:371-382: a later tool of the same name replaces an earlier one.
BuildToolMap(ts) ==
    [n \in {ts[i].name : i \in 1..Len(ts)} |->
        ts[CHOOSE i \in 1..Len(ts) : ts[i].name = n /\ \A j \in (i + 1)..Len(ts) : ts[j].name # n]]

\* Mutant of LoopCond: the bound is compared with <=.
LoopCondInclusive(s, max) == s <= max

\* agent.go:385, the loop condition
LoopCond(s, max) == s < max

\* Mutant of EnterLoop: no copy is made, the loop works on the caller's slice.
EnterLoopOnCallerSlice(choices) ==
    /\ agentState = "ready"
    /\ pc = "idle"
    /\ \E msgs \in CallerHistories, hs \in choices :
          /\ messages' = WithSystemPrompt(systemPrompt, msgs)
          /\ handlers' = hs
          /\ workingMessages' = WithSystemPrompt(systemPrompt, msgs)
    /\ toolMap' = BuildToolMap(tools)
    /\ step' = 0
    /\ pc' = "loop"
    /\ UNCHANGED <<brokerVars, response, tcIdx, toolOut, ret, inflight, issued, trace>>

\* agent.go:350-384: entry of GenerateWithLoop up to the loop, with the
\* non-nil handlers one of `choices`.
EnterLoop(choices) ==
    /\ agentState = "ready"
    /\ pc = "idle"
    /\ \E msgs \in CallerHistories, hs \in choices :
          /\ messages' = msgs
          /\ handlers' = hs
          /\ workingMessages' = WithSystemPrompt(systemPrompt, msgs)
    /\ toolMap' = BuildToolMap(tools)
    /\ step' = 0
    /\ pc' = "loop"
    /\ UNCHANGED <<brokerVars, response, tcIdx, toolOut, ret, inflight, issued, trace>>

GenerateWithLoop == EnterLoop(HandlerChoices)

\* The same call with each of the four handlers nil or not.
GenerateWithLoopAnyHandlers == EnterLoop(SUBSET AllHandlers)

\* Mutant of MaxStepsReached: running out of steps is reported as an error.
MaxStepsReachedAsError ==
    /\ pc = "loop"
    /\ ~LoopCond(step, maxSteps)
    /\ ret' = [msg |-> NilMsg, err |-> <<"exceeded max steps">>]
    /\ pc' = "done"
    /\ UNCHANGED <<brokerVars, callVars, workingMessages, step, response, tcIdx, toolOut,
                   inflight, issued, trace>>

\* agent.go:385 and 448: the loop condition is false.
MaxStepsReached ==
    /\ pc = "loop"
    /\ ~LoopCond(step, maxSteps)
    /\ ret' = [msg |-> AssistantMessage(MaxStepsReachedText, <<>>), err |-> NoErr]
    /\ pc' = "done"
    /\ UNCHANGED <<brokerVars, callVars, workingMessages, step, response, tcIdx, toolOut,
                   inflight, issued, trace>>

\* Mutant of GenerateFails: the failed call is tried again.
GenerateFailsAndRetries ==
    /\ pc = "loop"
    /\ LoopCond(step, maxSteps)
    /\ \E e \in GenerateErrors :
          trace' = trace \o <<Entry("generate", 0, workingMessages),
                              Entry("generateFailed", 0, e)>>
    /\ step' = step + 1
    /\ UNCHANGED <<brokerVars, callVars, workingMessages, pc, response, tcIdx, toolOut, ret,
                   inflight, issued>>

\* agent.go:387-390: model.Generate fails.
GenerateFails ==
    /\ pc = "loop"
    /\ LoopCond(step, maxSteps)
    /\ \E e \in GenerateErrors :
          /\ ret' = [msg |-> NilMsg, err |-> <<"failed to generate response: ">> \o e]
          /\ trace' = trace \o <<Entry("generate", 0, workingMessages),
                                 Entry("generateFailed", 0, e)>>
    /\ pc' = "done"
    /\ UNCHANGED <<brokerVars, callVars, workingMessages, step, response, tcIdx, toolOut,
                   inflight, issued>>

\* Mutant of GenerateReturns: the response is put in front of the history.
GenerateReturnsPrepending ==
    /\ pc = "loop"
    /\ LoopCond(step, maxSteps)
    /\ \E resp \in Responses(issued) :
          /\ response' = resp
          /\ workingMessages' = <<resp>> \o workingMessages
          /\ issued' = issued + Len(resp.ToolCalls)
          /\ pc' = IF Len(resp.ToolCalls) > 0 THEN "toolCallContent" ELSE "final"
          /\ trace' = trace \o <<Entry("generate", 0, workingMessages),
                                 Entry("generated", 0, resp)>>
    /\ UNCHANGED <<brokerVars, callVars, step, tcIdx, toolOut, ret, inflight>>

\* agent.go:387-396: model.Generate returns a response, which is appended.
GenerateReturns ==
    /\ pc = "loop"
    /\ LoopCond(step, maxSteps)
    /\ \E resp \in Responses(issued) :
          /\ response' = resp
          /\ workingMessages' = Append(workingMessages, resp)
          /\ issued' = issued + Len(resp.ToolCalls)
          /\ pc' = IF Len(resp.ToolCalls) > 0 THEN "toolCallContent" ELSE "final"
          /\ trace' = trace \o <<Entry("generate", 0, workingMessages),
                                 Entry("generated", 0, resp)>>
    /\ UNCHANGED <<brokerVars, callVars, step, tcIdx, toolOut, ret, inflight>>

\* agent.go:398-400
NotifyToolCallContent ==
    /\ pc = "toolCallContent"
    /\ trace' = IF response.Content # EmptyStr /\ "onToolCallContent" \in handlers
                THEN Append(trace, Entry("onToolCallContent", 0, response.Content))
                ELSE trace
    /\ tcIdx' = 1
    /\ pc' = "forToolCalls"
    /\ UNCHANGED <<brokerVars, callVars, workingMessages, step, response, toolOut, ret,
                   inflight, issued>>

\* Mutant of NotifyToolCall: the tool call is not announced.
NotifyToolCallOmitted ==
    /\ pc = "forToolCalls"
    /\ tcIdx <= Len(response.ToolCalls)
    /\ pc' = "execute"
    /\ UNCHANGED <<brokerVars, callVars, workingMessages, step, response, tcIdx, toolOut, ret,
                   inflight, issued, trace>>

\* Mutant of NotifyToolCall: the rest of the iteration sits inside the
\* `onToolCall != nil` block, so without the handler the call is passed over.
NotifyToolCallGuardingExecution ==
    /\ pc = "forToolCalls"
    /\ tcIdx <= Len(response.ToolCalls)
    /\ IF "onToolCall" \in handlers
       THEN /\ trace' = Append(trace, Entry("onToolCall", tcIdx,
                            <<response.ToolCalls[tcIdx].Name, response.ToolCalls[tcIdx].Arguments>>))
            /\ pc' = "execute"
            /\ UNCHANGED tcIdx
       ELSE /\ tcIdx' = tcIdx + 1
            /\ UNCHANGED <<trace, pc>>
    /\ UNCHANGED <<brokerVars, callVars, workingMessages, step, response, toolOut, ret,
                   inflight, issued>>

\* agent.go:403-407: the next tool call, announced to onToolCall.
NotifyToolCall ==
    /\ pc = "forToolCalls"
    /\ tcIdx <= Len(response.ToolCalls)
    /\ trace' = IF "onToolCall" \in handlers
                THEN Append(trace, Entry("onToolCall", tcIdx,
                         <<response.ToolCalls[tcIdx].Name, response.ToolCalls[tcIdx].Arguments>>))
                ELSE trace
    /\ pc' = "execute"
    /\ UNCHANGED <<brokerVars, callVars, workingMessages, step, response, tcIdx, toolOut, ret,
                   inflight, issued>>

\* agent.go:403 and 385: the tool calls are exhausted, the step ends.
EndStep ==
    /\ pc = "forToolCalls"
    /\ tcIdx > Len(response.ToolCalls)
    /\ step' = step + 1
    /\ pc' = "loop"
    /\ UNCHANGED <<brokerVars, callVars, workingMessages, response, tcIdx, toolOut, ret,
                   inflight, issued, trace>>

CurrentCall == response.ToolCalls[tcIdx]

\* Mutant of StartInvocation: the invocation is started in the background
\* and the loop moves on to the next tool call.
StartInvocationInBackground ==
    /\ pc = "execute"
    /\ CurrentCall.Name \in DOMAIN toolMap
    /\ inflight' = inflight \cup {tcIdx}
    /\ trace' = Append(trace, Entry("invoke", tcIdx, CurrentCall.Name))
    /\ tcIdx' = tcIdx + 1
    /\ pc' = "forToolCalls"
    /\ UNCHANGED <<brokerVars, callVars, workingMessages, step, response, toolOut, ret, issued>>

\* agent.go:410-411: the name is in toolMap and InvokableRun is entered.
StartInvocation ==
    /\ pc = "execute"
    /\ CurrentCall.Name \in DOMAIN toolMap
    /\ inflight' = inflight \cup {tcIdx}
    /\ trace' = Append(trace, Entry("invoke", tcIdx, CurrentCall.Name))
    /\ pc' = "running"
    /\ UNCHANGED <<brokerVars, callVars, workingMessages, step, response, tcIdx, toolOut, ret,
                   issued>>

\* Mutant of ToolNotFound: an unknown name is skipped without a tool message.
ToolNotFoundSkipped ==
    /\ pc = "execute"
    /\ CurrentCall.Name \notin DOMAIN toolMap
    /\ toolOut' = [result |-> <<"Tool not found: ">> \o CurrentCall.Name, isError |-> TRUE]
    /\ pc' = "notifyResult"
    /\ UNCHANGED <<brokerVars, callVars, workingMessages, step, response, tcIdx, ret, inflight,
                   issued, trace>>

\* Mutant of ToolNotFound: the message carries the id of the response's first
\* tool call.
ToolNotFoundWithFirstID ==
    /\ pc = "execute"
    /\ CurrentCall.Name \notin DOMAIN toolMap
    /\ LET errorMsg == <<"Tool not found: ">> \o CurrentCall.Name
           toolMessage == ToolMessage(errorMsg, response.ToolCalls[1].ID)
       IN  /\ workingMessages' = Append(workingMessages, toolMessage)
           /\ toolOut' = [result |-> errorMsg, isError |-> TRUE]
           /\ trace' = Append(trace, Entry("append", tcIdx, toolMessage))
    /\ pc' = "notifyResult"
    /\ UNCHANGED <<brokerVars, callVars, step, response, tcIdx, ret, inflight, issued>>

\* agent.go:428-431: the name is not in toolMap.
ToolNotFound ==
    /\ pc = "execute"
    /\ CurrentCall.Name \notin DOMAIN toolMap
    /\ LET errorMsg == <<"Tool not found: ">> \o CurrentCall.Name
           toolMessage == ToolMessage(errorMsg, CurrentCall.ID)
       IN  /\ workingMessages' = Append(workingMessages, toolMessage)
           /\ toolOut' = [result |-> errorMsg, isError |-> TRUE]
           /\ trace' = Append(trace, Entry("append", tcIdx, toolMessage))
    /\ pc' = "notifyResult"
    /\ UNCHANGED <<brokerVars, callVars, step, response, tcIdx, ret, inflight, issued>>

\* Mutant of CallToolRequest: the request carries the qualified name.
CallToolRequestWithQualifiedName(t, argumentsInJSON, answer) ==
    [client |-> t.client, name |-> t.name, arguments |-> argumentsInJSON, answer |-> answer]

\* mcp.go:59-63: the call-tool request that goes out over the tool's client,
\* with the answer that comes back for it.
CallToolRequest(t, argumentsInJSON, answer) ==
    [client |-> t.client, name |-> t.toolInfo, arguments |-> argumentsInJSON, answer |-> answer]

\* The provider's answers InvokableRun can meet: none is read when the
\* arguments do not parse.
AnswersFor(argumentsInJSON) ==
    IF ParsesAsObject(argumentsInJSON) THEN ProviderAnswers ELSE {CallToolErr(EmptyStr)}

\* Mutant of InvokableRunReturns: a failed invocation is returned as the
\* loop's own error.
InvokableRunReturnsFatal ==
    /\ pc = "running"
    /\ \E answer \in AnswersFor(CurrentCall.Arguments) :
          LET t == toolMap[CurrentCall.Name]
              r == InvokableRun(t, CurrentCall.Arguments, answer)
              toolMessage == ToolMessage(r.output, CurrentCall.ID)
              sent == IF r.sent
                      THEN <<Entry("callTool", tcIdx, CallToolRequest(t, CurrentCall.Arguments, answer))>>
                      ELSE <<>>
          IN  IF r.err # NoErr
              THEN /\ ret' = [msg |-> NilMsg, err |-> <<"Tool execution error: ">> \o r.err]
                   /\ trace' = trace \o sent \o <<Entry("returned", tcIdx, r)>>
                   /\ pc' = "done"
                   /\ UNCHANGED <<workingMessages, toolOut>>
              ELSE /\ workingMessages' = Append(workingMessages, toolMessage)
                   /\ toolOut' = [result |-> r.output, isError |-> FALSE]
                   /\ trace' = trace \o sent \o <<Entry("returned", tcIdx, r),
                                                   Entry("append", tcIdx, toolMessage)>>
                   /\ pc' = "notifyResult"
                   /\ UNCHANGED ret
    /\ inflight' = inflight \ {tcIdx}
    /\ UNCHANGED <<brokerVars, callVars, step, response, tcIdx, issued>>

\* agent.go:411-415 and 420-422 with mcp.go:53-80: InvokableRun returns and
\* its result, or its error, is appended as a tool message.
InvokableRunReturns ==
    /\ pc = "running"
    /\ \E answer \in AnswersFor(CurrentCall.Arguments) :
          LET t == toolMap[CurrentCall.Name]
              r == InvokableRun(t, CurrentCall.Arguments, answer)
              text == IF r.err # NoErr THEN <<"Tool execution error: ">> \o r.err ELSE r.output
              toolMessage == ToolMessage(text, CurrentCall.ID)
              sent == IF r.sent
                      THEN <<Entry("callTool", tcIdx, CallToolRequest(t, CurrentCall.Arguments, answer))>>
                      ELSE <<>>
          IN  /\ workingMessages' = Append(workingMessages, toolMessage)
              /\ toolOut' = [result |-> text, isError |-> r.err # NoErr]
              /\ trace' = trace \o sent \o <<Entry("returned", tcIdx, r),
                                              Entry("append", tcIdx, toolMessage)>>
    /\ inflight' = inflight \ {tcIdx}
    /\ pc' = "notifyResult"
    /\ UNCHANGED <<brokerVars, callVars, step, response, tcIdx, ret, issued>>

\* agent.go:417-419, 424-426, 433-435, and the advance of the range loop.
NotifyToolResult ==
    /\ pc = "notifyResult"
    /\ trace' = IF "onToolResult" \in handlers
                THEN Append(trace, Entry("onToolResult", tcIdx,
                         [name |-> CurrentCall.Name, args |-> CurrentCall.Arguments,
                          result |-> toolOut.result, isError |-> toolOut.isError]))
                ELSE trace
    /\ tcIdx' = tcIdx + 1
    /\ pc' = "forToolCalls"
    /\ UNCHANGED <<brokerVars, callVars, workingMessages, step, response, toolOut, ret,
                   inflight, issued>>

\* Mutant of FinalResponse: the return is missing, the loop goes on.
FinalResponseNoReturn ==
    /\ pc = "final"
    /\ trace' = IF "onResponse" \in handlers /\ response.Content # EmptyStr
                THEN Append(trace, Entry("onResponse", 0, response.Content))
                ELSE trace
    /\ step' = step + 1
    /\ pc' = "loop"
    /\ UNCHANGED <<brokerVars, callVars, workingMessages, response, tcIdx, toolOut, ret,
                   inflight, issued>>

\* agent.go:438-444: a response without tool calls is the result.
FinalResponse ==
    /\ pc = "final"
    /\ trace' = IF "onResponse" \in handlers /\ response.Content # EmptyStr
                THEN Append(trace, Entry("onResponse", 0, response.Content))
                ELSE trace
    /\ ret' = [msg |-> response, err |-> NoErr]
    /\ pc' = "done"
    /\ UNCHANGED <<brokerVars, callVars, workingMessages, step, response, tcIdx, toolOut,
                   inflight, issued>>

Next ==
    \/ NewAgent
    \/ GenerateWithLoop
    \/ MaxStepsReached
    \/ GenerateFails
    \/ GenerateReturns
    \/ NotifyToolCallContent
    \/ NotifyToolCall
    \/ EndStep
    \/ StartInvocation
    \/ ToolNotFound
    \/ InvokableRunReturns
    \/ NotifyToolResult
    \/ FinalResponse

Spec == Init /\ [][Next]_vars

\* ------------------------------------------------- the loop and its handlers
\* One agent configuration; the caller passes any combination of handlers.
SinkInit ==
    /\ Init
    /\ config.MCPServers[FsServer].AllowedTools # <<>>
    /\ config.SystemPrompt # EmptyStr
    /\ config.MaxSteps = MaxStepsCfg

SinkNext ==
    \/ NewAgent
    \/ GenerateWithLoopAnyHandlers
    \/ MaxStepsReached
    \/ GenerateFails
    \/ GenerateReturns
    \/ NotifyToolCallContent
    \/ NotifyToolCall
    \/ EndStep
    \/ StartInvocation
    \/ ToolNotFound
    \/ InvokableRunReturns
    \/ NotifyToolResult
    \/ FinalResponse

SinkSpec == SinkInit /\ [][SinkNext]_vars

\* ------------------------------------------- the program around the broker
BearerHeader == <<"Authorization: Bearer my-token">>

\* The server specifications explored: a stdio server without lists, with an
\* allow-list, with a deny-list, with both, an SSE server without lists, and
\* an SSE server with a header.
BrokerServerConfigs ==
    { ServerConfig(<<"server">>, EmptyStr, <<>>, <<>>),
      ServerConfig(<<"server">>, EmptyStr, <<RunTool>>, <<>>),
      ServerConfig(<<"server">>, EmptyStr, <<>>, <<RunTool>>),
      ServerConfig(<<"server">>, EmptyStr, <<RunTool>>, <<RunTool>>),
      ServerConfig(EmptyStr, <<"http://localhost/sse">>, <<>>, <<>>),
      WithHeaders(ServerConfig(EmptyStr, <<"http://localhost/sse">>, <<>>, <<>>),
                  <<BearerHeader>>) }

\* mcpServers with provider "a" alone or with providers "a" and "b".
BrokerConfigs ==
    [{ServerA} -> BrokerServerConfigs] \cup [{ServerA, ServerB} -> BrokerServerConfigs]

\* The program starts with its server configuration in a config file or in
\* the frontmatter of a script.
BrokerInit ==
    /\ config \in [MCPServers : BrokerConfigs, SystemPrompt : {EmptyStr}, MaxSteps : {MaxStepsCfg}]
    /\ source \in {"file", "script"}
    /\ mainPc = "start"
    /\ flags = [MaxSteps |-> MaxStepsCfg, MessageWindow |-> DefaultMessageWindow]
    /\ NothingRun

\* runNormalMode with no script configuration: config.LoadMCPConfig reads the
\* file and validates it; an invalid one ends the program.
LoadMCPConfig ==
    /\ mainPc = "start"
    /\ source = "file"
    /\ mainPc' = IF Validate(config.MCPServers) THEN "loaded" ELSE "configError"
    /\ UNCHANGED <<config, agentState, clients, tools, maxSteps, systemPrompt, source, conns,
                   closeErr, lastInvocation, cliVars, loopVars, issued>>

\* runScriptMode: the servers of the script become the configuration as they
\* are, and runNormalMode takes them instead of loading a file.
runScriptMode ==
    /\ mainPc = "start"
    /\ source = "script"
    /\ mainPc' = "loaded"
    /\ UNCHANGED <<config, agentState, clients, tools, maxSteps, systemPrompt, source, conns,
                   closeErr, lastInvocation, cliVars, loopVars, issued>>

\* part_000:233, the step limit that stands for "unlimited"
UnlimitedMaxSteps == 1000

\* part_000:231-234
AgentMaxSteps(maxStepsFlag) == IF maxStepsFlag = 0 THEN UnlimitedMaxSteps ELSE maxStepsFlag

\* runNormalMode, from the loaded configuration to the agent configuration:
\* MaxSteps is the --max-steps flag, or the high limit when the flag is 0.
BuildAgentConfig ==
    /\ mainPc = "loaded"
    /\ config' = [config EXCEPT !.MaxSteps = AgentMaxSteps(flags.MaxSteps)]
    /\ mainPc' = "configured"
    /\ UNCHANGED <<agentState, clients, tools, maxSteps, systemPrompt, source, conns,
                   closeErr, lastInvocation, cliVars, loopVars, issued>>

\* One tool invocation made by the loop during the session: the name is
\* looked up in the tool map and InvokableRun is called on the tool found.
InvokeTool ==
    /\ mainPc = "session"
    /\ issued < MaxToolCalls
    /\ \E name \in DOMAIN BuildToolMap(tools), args \in {ValidArgs, InvalidArgs} :
          \E answer \in AnswersFor(args) :
              LET t == BuildToolMap(tools)[name]
                  r == InvokableRun(t, args, answer)
                  req == CallToolRequest(t, args, answer)
              IN  /\ conns' = IF r.sent
                              THEN [conns EXCEPT ![req.client].requests = Append(@, req.name)]
                              ELSE conns
                  /\ lastInvocation' =
                         [name |-> name, arguments |-> args,
                          sent |-> IF r.sent THEN <<req>> ELSE <<>>]
    /\ issued' = issued + 1
    /\ UNCHANGED <<config, agentState, clients, tools, maxSteps, systemPrompt, source, mainPc,
                   closeErr, cliVars, loopVars>>

\* runNormalMode returns (end of input, the non-interactive prompt answered,
\* an agent error in non-interactive mode) and the deferred Close runs.
DeferredClose ==
    /\ mainPc = "session"
    /\ \E way \in {"endOfInput", "completed", "agentError"},
          order \in Orders(clients), failing \in SUBSET clients :
          LET c == Close(order, failing, 1, conns)
          IN  /\ conns' = c.conns
              /\ closeErr' = c.err
              /\ mainPc' = way
    /\ UNCHANGED <<config, agentState, clients, tools, maxSteps, systemPrompt, source,
                   lastInvocation, cliVars, loopVars, issued>>

\* HandleSlashCommand("/quit"): os.Exit(0); deferred calls do not run.
QuitCommand ==
    /\ mainPc = "session"
    /\ mainPc' = "quit"
    /\ UNCHANGED <<config, agentState, clients, tools, maxSteps, systemPrompt, source, conns,
                   closeErr, lastInvocation, cliVars, loopVars, issued>>

BrokerNext ==
    \/ LoadMCPConfig
    \/ runScriptMode
    \/ BuildAgentConfig
    \/ NewAgent
    \/ InvokeTool
    \/ DeferredClose
    \/ QuitCommand

BrokerSpec == BrokerInit /\ [][BrokerNext]_vars

\* ---------------------------------------------------------- the step budget
\* The request a model that never stops asking for tools keeps making.
RepeatedRequest == [Name |-> QualifiedName(FsServer, ReadFile), Arguments |-> InvalidArgs]

\* The responses of a model that answers every generate call with one
\* tool-call request, when it has already issued n of them.
ToolCallingResponses(n) == { AssistantMessage(EmptyStr, <<ToolCall(n + 1, RepeatedRequest)>>) }

\* agent.go:387-396 against that model: the response is appended and has a
\* tool call.  Of the history given to the call the trace keeps the length.
GenerateReturnsToolCall ==
    /\ pc = "loop"
    /\ LoopCond(step, maxSteps)
    /\ \E resp \in ToolCallingResponses(issued) :
          /\ response' = resp
          /\ workingMessages' = Append(workingMessages, resp)
          /\ issued' = issued + Len(resp.ToolCalls)
          /\ pc' = IF Len(resp.ToolCalls) > 0 THEN "toolCallContent" ELSE "final"
          /\ trace' = trace \o <<Entry("generate", 0, Len(workingMessages)),
                                 Entry("generated", 0, resp)>>
    /\ UNCHANGED <<brokerVars, callVars, step, tcIdx, toolOut, ret, inflight>>

\* An agent made directly from an agent.AgentConfig whose MaxSteps is 0.
DefaultBudgetInit ==
    /\ config \in [MCPServers : ConfigChoices, SystemPrompt : {EmptyStr}, MaxSteps : {0}]
    /\ source = "file"
    /\ mainPc = "configured"
    /\ flags = DefaultFlags
    /\ NothingRun

DefaultBudgetNext ==
    \/ NewAgent
    \/ GenerateWithLoop
    \/ MaxStepsReached
    \/ GenerateReturnsToolCall
    \/ NotifyToolCallContent
    \/ NotifyToolCall
    \/ EndStep
    \/ StartInvocation
    \/ InvokableRunReturns
    \/ NotifyToolResult

DefaultBudgetSpec == DefaultBudgetInit /\ [][DefaultBudgetNext]_vars

\* runNonInteractiveMode up to the loop of GenerateWithLoop: the history is
\* the prompt, and every handler is given.
runNonInteractiveMode ==
    /\ mainPc = "session"
    /\ agentState = "ready"
    /\ pc = "idle"
    /\ messages' = <<UserMessage(<<"hi">>)>>
    /\ handlers' = AllHandlers
    /\ workingMessages' = WithSystemPrompt(systemPrompt, <<UserMessage(<<"hi">>)>>)
    /\ toolMap' = BuildToolMap(tools)
    /\ step' = 0
    /\ pc' = "loop"
    /\ UNCHANGED <<brokerVars, response, tcIdx, toolOut, ret, inflight, issued, trace>>

\* One provider "fs" of which only read_file is allowed.
ReadOnlyConfig == [s \in {FsServer} |-> ServerConfig(<<"fs-server">>, EmptyStr, <<ReadFile>>, <<>>)]

\* The program started with -p and without --max-steps.
UnlimitedInit ==
    /\ config \in [MCPServers : {ReadOnlyConfig}, SystemPrompt : {EmptyStr}, MaxSteps : {0}]
    /\ source = "file"
    /\ mainPc = "start"
    /\ flags = DefaultFlags
    /\ NothingRun

UnlimitedNext ==
    \/ LoadMCPConfig
    \/ BuildAgentConfig
    \/ NewAgent
    \/ runNonInteractiveMode
    \/ MaxStepsReached
    \/ GenerateReturnsToolCall
    \/ NotifyToolCallContent
    \/ NotifyToolCall
    \/ EndStep
    \/ StartInvocation
    \/ InvokableRunReturns
    \/ NotifyToolResult

UnlimitedSpec == UnlimitedInit /\ [][UnlimitedNext]_vars

\* ------------------------------------------------- the interactive session
\* The prompts of a session, and the largest of the small message windows.
MaxTurns == 2
SmallWindow == 2

\* What the user types as the n-th prompt of the session.
PromptText(n) == <<"q">> \o [k \in 1..n |-> "!"]

\* The commands HandleSlashCommand knows (but /quit), and one it does not.
SlashCommands ==
    { <<"/", "help">>, <<"/", "tools">>, <<"/", "servers">>, <<"/", "history">>,
      <<"/", "clear">>, <<"/", "x">> }

\* strings.HasPrefix(input, "/")
IsSlashCommand(input) == Len(input) > 0 /\ input[1] = "/"

\* The prompts submitted so far.
Turns == Len(SelectSeq(sessionLog, LAMBDA m : m.Role = "user"))

\* Mutant of Prune: the first `window` messages are kept.
PruneKeepingOldest(msgs, window) ==
    IF Len(msgs) > window THEN SubSeq(msgs, 1, window) ELSE msgs

\* part_000:450-452
Prune(msgs, window) ==
    IF Len(msgs) > window THEN SubSeq(msgs, Len(msgs) - window + 1, Len(msgs)) ELSE msgs

\* The program started in interactive mode with --max-steps and
\* --message-window given.
SessionInit ==
    /\ config \in [MCPServers : {ReadOnlyConfig}, SystemPrompt : {EmptyStr}, MaxSteps : {0}]
    /\ source = "file"
    /\ mainPc = "start"
    /\ flags \in [MaxSteps : {MaxStepsCfg},
                  MessageWindow : 0..SmallWindow \cup {DefaultMessageWindow}]
    /\ NothingRun

\* part_000:430-432: an empty prompt is passed over.
EmptyPrompt ==
    /\ mainPc = "session"
    /\ pc = "idle"
    /\ lastInput' = EmptyStr
    /\ UNCHANGED <<config, agentState, clients, tools, maxSteps, systemPrompt, source, mainPc,
                   conns, closeErr, lastInvocation, flags, sessionLog, loopVars, issued>>

\* part_000:435-441 with cli.go:258-283: a slash command shows something, or
\* is reported as unknown; the history it is given is only displayed.
SlashCommand ==
    /\ mainPc = "session"
    /\ pc = "idle"
    /\ \E c \in SlashCommands : lastInput' = c
    /\ UNCHANGED <<config, agentState, clients, tools, maxSteps, systemPrompt, source, mainPc,
                   conns, closeErr, lastInvocation, flags, sessionLog, loopVars, issued>>

\* part_000:443-462 with agent.go:350-384: the prompt is appended to the
\* history, the history is pruned to the window, and GenerateWithLoop is
\* called with it and with every handler.
SubmitPrompt ==
    /\ mainPc = "session"
    /\ pc = "idle"
    /\ Turns < MaxTurns
    /\ LET prompt == PromptText(Turns + 1)
           pruned == Prune(Append(messages, UserMessage(prompt)), flags.MessageWindow)
       IN  /\ lastInput' = prompt
           /\ sessionLog' = Append(sessionLog, UserMessage(prompt))
           /\ messages' = pruned
           /\ workingMessages' = WithSystemPrompt(systemPrompt, pruned)
    /\ handlers' = AllHandlers
    /\ toolMap' = BuildToolMap(tools)
    /\ step' = 0
    /\ pc' = "loop"
    /\ UNCHANGED <<config, agentState, clients, tools, maxSteps, systemPrompt, source, mainPc,
                   conns, closeErr, lastInvocation, flags, response, tcIdx, toolOut, ret,
                   inflight, issued, trace>>

\* Mutant of TurnReturns: the history becomes the loop's working history.
TurnReturnsWithWorkingHistory ==
    /\ mainPc = "session"
    /\ pc = "done"
    /\ IF ret.err # NoErr
       THEN UNCHANGED <<messages, sessionLog>>
       ELSE /\ messages' = workingMessages
            /\ sessionLog' = Append(sessionLog, ret.msg)
    /\ pc' = "idle"
    /\ handlers' = {}
    /\ workingMessages' = <<>>
    /\ toolMap' = <<>>
    /\ step' = 0
    /\ response' = NilMsg
    /\ tcIdx' = 0
    /\ toolOut' = NoOut
    /\ ret' = NoRet
    /\ trace' = <<>>
    /\ UNCHANGED <<config, agentState, clients, tools, maxSteps, systemPrompt, source, mainPc,
                   conns, closeErr, lastInvocation, flags, lastInput, inflight, issued>>

\* part_000:515-531: GenerateWithLoop has returned.  An error is displayed
\* and the loop goes on to the next prompt; a response is appended to the
\* history.  The locals of the call are gone.
TurnReturns ==
    /\ mainPc = "session"
    /\ pc = "done"
    /\ IF ret.err # NoErr
       THEN UNCHANGED <<messages, sessionLog>>
       ELSE /\ messages' = Append(messages, ret.msg)
            /\ sessionLog' = Append(sessionLog, ret.msg)
    /\ pc' = "idle"
    /\ handlers' = {}
    /\ workingMessages' = <<>>
    /\ toolMap' = <<>>
    /\ step' = 0
    /\ response' = NilMsg
    /\ tcIdx' = 0
    /\ toolOut' = NoOut
    /\ ret' = NoRet
    /\ trace' = <<>>
    /\ UNCHANGED <<config, agentState, clients, tools, maxSteps, systemPrompt, source, mainPc,
                   conns, closeErr, lastInvocation, flags, lastInput, inflight, issued>>

SessionNext ==
    \/ LoadMCPConfig
    \/ BuildAgentConfig
    \/ NewAgent
    \/ EmptyPrompt
    \/ SlashCommand
    \/ SubmitPrompt
    \/ MaxStepsReached
    \/ GenerateFails
    \/ GenerateReturns
    \/ NotifyToolCallContent
    \/ NotifyToolCall
    \/ EndStep
    \/ StartInvocation
    \/ ToolNotFound
    \/ InvokableRunReturns
    \/ NotifyToolResult
    \/ FinalResponse
    \/ TurnReturns

SessionSpec == SessionInit /\ [][SessionNext]_vars

\* ------------------------------------------------------- reading the trace
TraceIdx == 1..Len(trace)
OpsAt(op) == {p \in TraceIdx : trace[p].op = op}
GenCount == Cardinality(OpsAt("generate"))

Sentinel == AssistantMessage(MaxStepsReachedText, <<>>)

\* The names registered in the broker's catalogue.
CatalogueNames == {tools[k].name : k \in 1..Len(tools)}

\* The steps whose model call returned a response, and that response.
StepsGenerated == {trace[p].step : p \in OpsAt("generated")}
ResponseAt(s) == trace[CHOOSE p \in OpsAt("generated") : trace[p].step = s].val

\* The entries of step s with the given op, in execution order.
EntriesOf(s, op) == SelectSeq(trace, LAMBDA e : e.step = s /\ e.op = op)
IdxSeq(s, op) == LET es == EntriesOf(s, op) IN [k \in 1..Len(es) |-> es[k].idx]

\* The steps that have ended: the loop went back to its head after them.
StepsEnded == {s \in StepsGenerated : s < step}

\* Every model call of the run returned a response that requests a tool.
AlwaysRequestedTools ==
    /\ OpsAt("generateFailed") = {}
    /\ \A s \in StepsGenerated : Len(ResponseAt(s).ToolCalls) > 0

IsPrefix(a, b) == Len(a) <= Len(b) /\ SubSeq(b, 1, Len(a)) = a

\* ------------------------------------------------------------------ claims

\* C1: with a positive maximum of K steps a run never makes more than K
\* generate calls, and a run in which every response requests a tool call
\* ends after exactly K generate calls with the fixed terminal message.
C1_ExactlyKGenerateCalls ==
    (agentState = "ready" /\ maxSteps > 0) =>
        /\ GenCount <= maxSteps
        /\ (pc = "done" /\ AlwaysRequestedTools) =>
               /\ GenCount = maxSteps
               /\ ret = [msg |-> Sentinel, err |-> NoErr]

C1_Witness ==
    /\ pc = "done"
    /\ maxSteps = 2
    /\ AlwaysRequestedTools
    /\ GenCount = 2
    /\ ret.msg = Sentinel

\* C2 as stated: for every response with N tool-call requests, once its step
\* has ended the loop has made exactly N invocations, for requests 1..N in
\* that order, and appended exactly N tool-role messages in that order.
C2_NInvocationsPerResponse ==
    \A s \in StepsEnded :
        LET N == Len(ResponseAt(s).ToolCalls)
        IN  /\ IdxSeq(s, "invoke") = [k \in 1..N |-> k]
            /\ IdxSeq(s, "append") = [k \in 1..N |-> k]

\* C2 as amended: for every response with N tool-call requests, once its
\* step has ended the loop has appended exactly N tool-role messages, the
\* k-th answering the k-th request, and has invoked, in request order, exactly
\* the requests whose name is in the catalogue; a request for a name that is
\* not in the catalogue is answered without an invocation.
C2_NResultsInRequestOrder ==
    \A s \in StepsEnded :
        LET calls == ResponseAt(s).ToolCalls
            N == Len(calls)
            appended == EntriesOf(s, "append")
            invoked == EntriesOf(s, "invoke")
            names == CatalogueNames
        IN  /\ [k \in 1..Len(appended) |-> appended[k].idx] = [k \in 1..N |-> k]
            /\ \A k \in 1..Len(appended) : appended[k].val.Role = "tool"
            /\ [k \in 1..Len(invoked) |-> invoked[k].idx] =
                   SelectSeq([k \in 1..N |-> k], LAMBDA k : calls[k].Name \in names)
            /\ \A k \in 1..Len(invoked) : invoked[k].val = calls[invoked[k].idx].Name

C2_Witness ==
    \E s \in StepsEnded :
        /\ Len(ResponseAt(s).ToolCalls) = 2
        /\ IdxSeq(s, "invoke") = <<2>>
        /\ IdxSeq(s, "append") = <<1, 2>>

\* Tool call i of step s has been answered: its tool message is appended.
Handled(s, i) ==
    \/ s < step
    \/ /\ s = step
       /\ pc \in {"forToolCalls", "execute", "running", "notifyResult"}
       /\ (i < tcIdx \/ (i = tcIdx /\ pc = "notifyResult"))

\* ... and the loop has gone past its onToolResult notification.
Notified(s, i) == Handled(s, i) /\ ~(s = step /\ i = tcIdx /\ pc = "notifyResult")

ToolExecutionError(err, id) == ToolMessage(<<"Tool execution error: ">> \o err, id)
ToolNotFoundMessage(name, id) == ToolMessage(<<"Tool not found: ">> \o name, id)

\* C3: when InvokableRun returns an error, the loop appends a tool message
\* carrying "Tool execution error: <error>" for that request, tells
\* onToolResult isError = true, and does not return because of it: a finished
\* run made the next generate call with that message in its history whenever
\* the step after the failing one was within the budget, and otherwise ended
\* with the fixed terminal message.
C3_ToolErrorDoesNotTerminate ==
    \A p \in OpsAt("returned") :
        trace[p].val.err # NoErr =>
            LET s == trace[p].step
                i == trace[p].idx
                errMsg == ToolExecutionError(trace[p].val.err, ResponseAt(s).ToolCalls[i].ID)
            IN  /\ Len(trace) > p
                /\ trace[p + 1] = [op |-> "append", step |-> s, idx |-> i, val |-> errMsg]
                /\ SeqContains(workingMessages, errMsg)
                /\ ("onToolResult" \in handlers /\ Notified(s, i)) =>
                       /\ trace[p + 2].op = "onToolResult"
                       /\ trace[p + 2].val.isError
                /\ pc = "done" =>
                       IF s + 1 < maxSteps
                       THEN \E q \in OpsAt("generate") :
                               /\ q > p
                               /\ trace[q].step = s + 1
                               /\ SeqContains(trace[q].val, errMsg)
                       ELSE ret = [msg |-> Sentinel, err |-> NoErr]

C3_Witness ==
    \E p \in OpsAt("returned"), q \in OpsAt("generate") :
        /\ trace[p].val.err # NoErr
        /\ q > p
        /\ SeqContains(trace[q].val,
               ToolExecutionError(trace[p].val.err,
                   ResponseAt(trace[p].step).ToolCalls[trace[p].idx].ID))

\* The deny-list of its provider removes raw tool `rawName`.
ExcludedByConfig(serverName, rawName) ==
    /\ Len(config.MCPServers[serverName].AllowedTools) = 0
    /\ SeqContains(config.MCPServers[serverName].ExcludedTools, rawName)

\* C4: a request for a name that is not in the catalogue never starts an
\* invocation and never sends a call-tool request (nor does a tool the
\* deny-list removes); it is answered by the tool message "Tool not found:
\* <name>" with the request's id, onToolResult is told isError = true, and
\* the run goes on: the only error a run returns is a generate failure, and a
\* finished run has answered every request and made the next generate call
\* when the budget allowed one.
C4_UnknownToolIsRecoverable ==
    LET names == CatalogueNames
        started == OpsAt("invoke") \cup OpsAt("callTool")
        appends == OpsAt("append")
    IN  /\ \A p \in OpsAt("invoke") : trace[p].val \in names
        /\ \A p \in OpsAt("callTool") :
              ~ExcludedByConfig(trace[p].val.client, trace[p].val.name)
        /\ \A s \in StepsGenerated :
              LET calls == ResponseAt(s).ToolCalls
              IN  \A i \in 1..Len(calls) :
                      (calls[i].Name \notin names /\ Handled(s, i)) =>
                          /\ \A p \in started : ~(trace[p].step = s /\ trace[p].idx = i)
                          /\ \E p \in appends :
                                /\ trace[p].step = s
                                /\ trace[p].idx = i
                                /\ trace[p].val = ToolNotFoundMessage(calls[i].Name, calls[i].ID)
                                /\ ("onToolResult" \in handlers /\ Notified(s, i)) =>
                                       /\ trace[p + 1].op = "onToolResult"
                                       /\ trace[p + 1].val.isError
                                       /\ trace[p + 1].val.name = calls[i].Name
                          /\ SeqContains(workingMessages,
                                 ToolNotFoundMessage(calls[i].Name, calls[i].ID))
                          /\ pc = "done" =>
                                 /\ \A j \in 1..Len(calls) : Handled(s, j)
                                 /\ IF s + 1 < maxSteps
                                    THEN \E q \in OpsAt("generate") : trace[q].step = s + 1
                                    ELSE ret = [msg |-> Sentinel, err |-> NoErr]
        /\ (pc = "done" /\ ret.err # NoErr) => trace[Len(trace)].op = "generateFailed"

C4_Witness ==
    /\ ExcludedByConfig(FsServer, DeleteFile)
    /\ "onToolResult" \in handlers
    /\ \E p \in OpsAt("append"), q \in OpsAt("generate") :
          /\ q > p
          /\ trace[p].val.Content = <<"Tool not found: ">> \o QualifiedName(FsServer, DeleteFile)
          /\ trace[p + 1].op = "onToolResult"
          /\ SeqContains(trace[q].val, trace[p].val)

\* C5: once the model returns a response without tool calls, the loop makes
\* no further generate call and no tool invocation (at most the onResponse
\* notification follows), and it returns exactly that response with no error,
\* whatever budget is left.
C5_PlainAnswerEndsRun ==
    \A p \in OpsAt("generated") :
        Len(trace[p].val.ToolCalls) = 0 =>
            /\ pc \in {"final", "done"}
            /\ \A q \in TraceIdx : q > p => (q = p + 1 /\ trace[q].op = "onResponse")
            /\ workingMessages[Len(workingMessages)] = trace[p].val
            /\ pc = "done" => ret = [msg |-> trace[p].val, err |-> NoErr]

C5_Witness ==
    /\ pc = "done"
    /\ GenCount = 1
    /\ maxSteps - step >= 2
    /\ ret.err = NoErr
    /\ ret.msg # Sentinel
    /\ Len(ret.msg.ToolCalls) = 0

\* C6: a finished run returns the fixed terminal message, with no error,
\* exactly when the step counter has reached the maximum: then no response
\* was a plain answer and no generate call failed, and in every other finished
\* run (a plain answer, a generate failure) the result is not that message.
C6_SentinelOnlyOnExhaustion ==
    pc = "done" =>
        /\ step >= maxSteps => ret = [msg |-> Sentinel, err |-> NoErr]
        /\ ret.msg = Sentinel =>
               /\ ret.err = NoErr
               /\ step >= maxSteps
               /\ AlwaysRequestedTools
               /\ GenCount = (IF maxSteps > 0 THEN maxSteps ELSE 0)

C6_Witness ==
    /\ pc = "done"
    /\ maxSteps = 1
    /\ step = 1
    /\ ret = [msg |-> Sentinel, err |-> NoErr]

\* C7: a failed generate call is the last thing a run does: the run is over,
\* it returned no message and the error "failed to generate response:
\* <error>", and no generate call, tool invocation or handler call follows.
C7_GenerateFailureIsFatal ==
    \A p \in OpsAt("generateFailed") :
        /\ p = Len(trace)
        /\ trace[p - 1].op = "generate"
        /\ pc = "done"
        /\ inflight = {}
        /\ ret = [msg |-> NilMsg, err |-> <<"failed to generate response: ">> \o trace[p].val]

C7_Witness ==
    /\ pc = "done"
    /\ ret.err # NoErr
    /\ GenCount = 2
    /\ OpsAt("onToolResult") # {}

\* Two generate calls with no generate call between them.
ConsecutiveGenerates(p, q) ==
    /\ trace[p].op = "generate"
    /\ trace[q].op = "generate"
    /\ p < q
    /\ \A m \in (p + 1)..(q - 1) : trace[m].op # "generate"

\* C8: the history given to a generate call is the history given to the
\* previous one, then that call's response, then one tool message per tool
\* call of that response, in request order, and nothing else; and the working
\* history always begins with every history a generate call was given.
C8_HistoryAppendOnly ==
    /\ \A p \in OpsAt("generate") : IsPrefix(trace[p].val, workingMessages)
    /\ \A q \in OpsAt("generate") : \A p \in 1..(q - 1) :
          ConsecutiveGenerates(p, q) =>
              LET r == ResponseAt(trace[p].step)
                  app == EntriesOf(trace[p].step, "append")
              IN  /\ trace[q].val = trace[p].val \o <<r>> \o [k \in 1..Len(app) |-> app[k].val]
                  /\ Len(app) = Len(r.ToolCalls)
                  /\ \A k \in 1..Len(app) :
                        /\ app[k].val.Role = "tool"
                        /\ app[k].val.ToolCallID = r.ToolCalls[k].ID

C8_Witness ==
    \E q \in OpsAt("generate") : \E p \in 1..(q - 1) :
        /\ ConsecutiveGenerates(p, q)
        /\ Len(ResponseAt(trace[p].step).ToolCalls) = 2
        /\ Len(trace[q].val) = Len(trace[p].val) + 3

\* C9: at most one InvokableRun is running at any time, it is the one of the
\* tool call the loop is at, and the invocation for a tool call starts only
\* after the tool message of the previous tool call of the step was appended;
\* between the start of an invocation and the append of its tool message the
\* loop does nothing else.
C9_SequentialDispatch ==
    /\ Cardinality(inflight) <= 1
    /\ inflight = (IF pc = "running" THEN {tcIdx} ELSE {})
    /\ \A p \in OpsAt("invoke") :
          /\ trace[p].idx > 1 =>
                \E q \in OpsAt("append") :
                    q < p /\ trace[q].step = trace[p].step /\ trace[q].idx = trace[p].idx - 1
          /\ p < Len(trace) =>
                /\ trace[p + 1].op \in {"callTool", "returned"}
                /\ trace[p + 1].step = trace[p].step
                /\ trace[p + 1].idx = trace[p].idx

C9_Witness ==
    \E p, q \in OpsAt("invoke") :
        /\ trace[p].step = trace[q].step
        /\ trace[p].idx = 1
        /\ trace[q].idx = 2
        /\ pc = "running"

\* C10: handler calls follow execution order.  onToolCallContent is called
\* right after a response with tool calls and text is received, before any
\* onToolCall; onToolCall for a request is called before that request is
\* looked up or invoked and after the previous request of the step is done
\* with; onToolResult is called right after the request's tool message is
\* appended, with that message's text, and before the next onToolCall.
C10_NotificationsFollowExecution ==
    \A p \in TraceIdx :
        LET e == trace[p]
        IN  /\ e.op = "onToolCallContent" =>
                  /\ trace[p - 1].op = "generated"
                  /\ Len(trace[p - 1].val.ToolCalls) > 0
                  /\ trace[p - 1].val.Content = e.val
                  /\ e.val # EmptyStr
            /\ ( /\ e.op = "generated"
                 /\ Len(e.val.ToolCalls) > 0
                 /\ e.val.Content # EmptyStr
                 /\ "onToolCallContent" \in handlers
                 /\ p < Len(trace) ) => trace[p + 1].op = "onToolCallContent"
            /\ e.op = "onToolCall" =>
                  /\ e.val = <<ResponseAt(e.step).ToolCalls[e.idx].Name,
                               ResponseAt(e.step).ToolCalls[e.idx].Arguments>>
                  /\ IF e.idx = 1
                     THEN trace[p - 1].op \in {"generated", "onToolCallContent"}
                     ELSE /\ trace[p - 1].step = e.step
                          /\ trace[p - 1].idx = e.idx - 1
                          /\ trace[p - 1].op =
                                 (IF "onToolResult" \in handlers THEN "onToolResult" ELSE "append")
            /\ ( /\ e.op \in {"invoke", "append"}
                 /\ trace[p - 1].op # "returned"
                 /\ "onToolCall" \in handlers ) =>
                  /\ trace[p - 1].op = "onToolCall"
                  /\ trace[p - 1].step = e.step
                  /\ trace[p - 1].idx = e.idx
            /\ e.op = "onToolResult" =>
                  /\ trace[p - 1].op = "append"
                  /\ trace[p - 1].step = e.step
                  /\ trace[p - 1].idx = e.idx
                  /\ trace[p - 1].val.Content = e.val.result
                  /\ SeqContains(workingMessages, trace[p - 1].val)
            /\ (e.op = "append" /\ "onToolResult" \in handlers /\ p < Len(trace)) =>
                  /\ trace[p + 1].op = "onToolResult"
                  /\ trace[p + 1].idx = e.idx

C10_Witness ==
    /\ handlers = AllHandlers
    /\ \E p \in OpsAt("onToolCallContent") :
          /\ Len(trace) >= p + 8
          /\ trace[p + 1].op = "onToolCall"
          /\ trace[p + 2].op = "invoke"
          /\ trace[p + 5].op = "append"
          /\ trace[p + 6].op = "onToolResult"
          /\ trace[p + 7].op = "onToolCall"
          /\ trace[p + 7].idx = 2

\* ------------------------------------------------------- C11: the Event Sink
HandlerOps == {"onToolCall", "onToolResult", "onResponse", "onToolCallContent"}

\* What the loop did apart from calling handlers.
ControlTrace == SelectSeq(trace, LAMBDA e : e.op \notin HandlerOps)

\* The model's behaviour during the run: what each generate call gave back.
ModelBehaviour == SelectSeq(trace, LAMBDA e : e.op \in {"generated", "generateFailed"})

\* The tools' behaviour during the run: the answer to each call-tool request.
ToolBehaviour ==
    LET sent == SelectSeq(trace, LAMBDA e : e.op = "callTool")
    IN  [k \in 1..Len(sent) |-> sent[k].val.answer]

RefEntry(op, s, i, val) == [op |-> op, step |-> s, idx |-> i, val |-> val]

RECURSIVE RefDispatch(_, _, _, _)
\* What a loop that has no handlers does for tool calls i.. of step s when
\* the providers give `answers`: its trace entries, the tool messages it
\* appends, the number of answers it uses.
RefDispatch(s, calls, i, answers) ==
    IF i > Len(calls) THEN [entries |-> <<>>, msgs |-> <<>>, used |-> 0]
    ELSE LET c == calls[i]
             known == c.Name \in DOMAIN toolMap
             sends == known /\ ParsesAsObject(c.Arguments)
             t == toolMap[c.Name]
             a == IF sends THEN answers[1] ELSE CallToolErr(EmptyStr)
             r == InvokableRun(t, c.Arguments, a)
             text == IF ~known THEN <<"Tool not found: ">> \o c.Name
                     ELSE IF r.err # NoErr THEN <<"Tool execution error: ">> \o r.err
                     ELSE r.output
             msg == ToolMessage(text, c.ID)
             own == IF known
                    THEN <<RefEntry("invoke", s, i, c.Name)>>
                         \o (IF sends
                             THEN <<RefEntry("callTool", s, i, CallToolRequest(t, c.Arguments, a))>>
                             ELSE <<>>)
                         \o <<RefEntry("returned", s, i, r), RefEntry("append", s, i, msg)>>
                    ELSE <<RefEntry("append", s, i, msg)>>
             rest == RefDispatch(s, calls, i + 1, IF sends THEN Tail(answers) ELSE answers)
         IN  [entries |-> own \o rest.entries,
              msgs |-> <<msg>> \o rest.msgs,
              used |-> rest.used + (IF sends THEN 1 ELSE 0)]

RECURSIVE RefLoop(_, _, _, _)
\* What a loop that has no handlers does from step s with history `hist`,
\* when the model gives `gens` and the providers give `answers`: its trace
\* entries, the history it builds, what it returns.
RefLoop(s, hist, gens, answers) ==
    IF ~(s < maxSteps)
    THEN [entries |-> <<>>, hist |-> hist, ret |-> [msg |-> Sentinel, err |-> NoErr]]
    ELSE LET g == gens[1]
             call == RefEntry("generate", s, 0, hist)
         IN  IF g.op = "generateFailed"
             THEN [entries |-> <<call, RefEntry("generateFailed", s, 0, g.val)>>,
                   hist |-> hist,
                   ret |-> [msg |-> NilMsg, err |-> <<"failed to generate response: ">> \o g.val]]
             ELSE LET resp == g.val
                      got == <<call, RefEntry("generated", s, 0, resp)>>
                  IN  IF Len(resp.ToolCalls) = 0
                      THEN [entries |-> got, hist |-> Append(hist, resp),
                            ret |-> [msg |-> resp, err |-> NoErr]]
                      ELSE LET d == RefDispatch(s, resp.ToolCalls, 1, answers)
                               rest == RefLoop(s + 1, Append(hist, resp) \o d.msgs, Tail(gens),
                                           SubSeq(answers, d.used + 1, Len(answers)))
                           IN  [entries |-> got \o d.entries \o rest.entries,
                                hist |-> rest.hist, ret |-> rest.ret]

\* C11: the handlers do not influence the loop.  Whatever handlers are passed
\* (each nil or not), a finished run made the generate calls and the tool
\* invocations, built the history and returned the result that a loop
\* without handlers makes, builds and returns for the same input history,
\* model behaviour and tool behaviour; and the handlers are called only where
\* they are not nil.
C11_HandlersDoNotInfluenceLoop ==
    /\ \A p \in TraceIdx : trace[p].op \in HandlerOps => trace[p].op \in handlers
    /\ pc = "done" =>
          LET ref == RefLoop(0, WithSystemPrompt(systemPrompt, messages),
                         ModelBehaviour, ToolBehaviour)
          IN  /\ ControlTrace = ref.entries
              /\ workingMessages = ref.hist
              /\ ret = ref.ret

C11_Witness ==
    /\ pc = "done"
    /\ handlers = {"onToolResult", "onResponse"}
    /\ OpsAt("onToolResult") # {}
    /\ OpsAt("onResponse") # {}
    /\ OpsAt("callTool") # {}
    /\ Len(ControlTrace) < Len(trace)

\* ------------------------------------------------------ C12..C18: the broker
\* Some server of the configuration has both an allow-list and a deny-list.
BothListsGiven == ~Validate(config.MCPServers)

\* C12: when some provider spec has both lists non-empty, the load does not
\* get to run and no connection to any provider is ever opened, whether the
\* specs come from the config file or from a script.
C12_ConflictRejectedBeforeConnecting ==
    BothListsGiven =>
        /\ agentState = "none"
        /\ DOMAIN conns = {}
        /\ mainPc \in {"start", "loaded", "configured", "configError"}

\* C13: after a successful load the registered names are pairwise distinct,
\* and a tool whose raw name already begins with "<provider>__" is registered
\* under its raw name.
C13_NamesUniqueAndPrefixIdempotent ==
    agentState = "ready" =>
        /\ \A i, j \in 1..Len(tools) : tools[i].name = tools[j].name => i = j
        /\ \A k \in 1..Len(tools) :
              IsPrefix(tools[k].client \o <<"__">>, tools[k].toolInfo) =>
                  tools[k].name = tools[k].toolInfo

\* The raw names registered for provider s, in catalogue order.
RegisteredFrom(s) ==
    LET own == SelectSeq(tools, LAMBDA t : t.client = s)
    IN  [k \in 1..Len(own) |-> own[k].toolInfo]

ElementsOf(seq) == {seq[k] : k \in 1..Len(seq)}

\* C14: after a successful load the catalogue holds, for every provider and
\* in listing order, exactly the listed tools whose raw name is in the
\* allow-list when there is an allow-list, and exactly those whose raw name
\* is not in the deny-list when there is none; with both lists empty it holds
\* every listed tool.
C14_FilterKeepsAllowedOrNotDenied ==
    agentState = "ready" =>
        \A s \in DOMAIN config.MCPServers :
            LET allow == ElementsOf(config.MCPServers[s].AllowedTools)
                deny == ElementsOf(config.MCPServers[s].ExcludedTools)
                kept == RegisteredFrom(s)
            IN  /\ s \in clients
                /\ allow # {} =>
                       kept = SelectSeq(ProviderTools(s), LAMBDA raw : raw \in allow)
                /\ allow = {} =>
                       kept = SelectSeq(ProviderTools(s), LAMBDA raw : raw \notin deny)
                /\ (allow = {} /\ deny = {}) => kept = ProviderTools(s)

C14_Witness ==
    /\ agentState = "ready"
    /\ DOMAIN config.MCPServers = {ServerA, ServerB}
    /\ config.MCPServers[ServerA].AllowedTools = <<RunTool>>
    /\ config.MCPServers[ServerA].ExcludedTools = <<RunTool>>
    /\ RegisteredFrom(ServerA) = <<RunTool>>
    /\ config.MCPServers[ServerB].AllowedTools = <<>>
    /\ config.MCPServers[ServerB].ExcludedTools = <<RunTool>>
    /\ RegisteredFrom(ServerB) = <<>>

\* C15: when the load fails, an error is returned and the broker holds no
\* tool of any provider.
C15_FailedLoadLeavesNoTools ==
    agentState = "failed" =>
        /\ mainPc = "loadError"
        /\ tools = <<>>

\* The ways runNormalMode returns from a session.
ReturnedFromSession == mainPc \in {"endOfInput", "completed", "agentError"}

\* C16: once Close has returned, every tracked connection got a Close call,
\* also when closing one of them failed, and the error returned names every
\* client whose close failed.
C16_CloseIsBestEffort ==
    ReturnedFromSession =>
        /\ \A s \in clients : conns[s].closes >= 1
        /\ \A s \in clients : conns[s].closeFailed => IsPrefix(s, SubSeq(closeErr, 2, Len(closeErr)))
        /\ (closeErr = EmptyStr) = (\A s \in clients : ~conns[s].closeFailed)

\* C17: when agent construction fails in the load, every connection made so
\* far is tracked by the broker and got a Close call.
C17_FailedLoadClosesConnections ==
    mainPc = "loadError" =>
        \A s \in DOMAIN conns :
            /\ s \in clients
            /\ conns[s].closes >= 1

\* C18: however the session ends (end of input, the non-interactive prompt
\* answered, an agent error, /quit), every connection made during
\* construction has been closed exactly once.
C18_ConnectionsClosedExactlyOnce ==
    (ReturnedFromSession \/ mainPc = "quit") =>
        \A s \in DOMAIN conns : conns[s].closes = 1

\* ------------------------------------------------------ C19: one invocation
\* A step of the session that invokes a tool.
InvocationStep == mainPc = "session" /\ issued' = issued + 1

\* What an invocation does to the connections when the request it sends, if
\* any, is `sent`: no connection is created, the connection of the request's
\* client gets the request's raw name, every other connection is untouched.
OnlyReaches(sent) ==
    /\ DOMAIN conns' = DOMAIN conns
    /\ \A s \in DOMAIN conns :
          conns'[s] = IF Len(sent) = 1 /\ sent[1].client = s
                      THEN [conns[s] EXCEPT !.requests = Append(@, sent[1].name)]
                      ELSE conns[s]

\* The invoked name is the qualified name of a catalogue entry of provider p
\* with raw name t, p's connection was opened at load, and the request that
\* went out, if any, carries t and the given arguments over that connection.
RoutedToOwner(inv) ==
    \E k \in 1..Len(tools) :
        LET p == tools[k].client
            t == tools[k].toolInfo
        IN  /\ inv.name = p \o <<"__">> \o t
            /\ t \in ElementsOf(ProviderTools(p))
            /\ p \in clients
            /\ p \in DOMAIN conns
            /\ \A m \in 1..Len(inv.sent) :
                  /\ inv.sent[m].client = p
                  /\ inv.sent[m].name = t
                  /\ inv.sent[m].arguments = inv.arguments

RECURSIVE ProviderText(_, _)
\* The text of a call-tool result: the texts of its text items, in order.
ProviderText(content, i) ==
    IF i > Len(content) THEN EmptyStr
    ELSE (IF content[i].type = "text" THEN content[i].Text ELSE EmptyStr)
         \o ProviderText(content, i + 1)

\* C20: when an invocation succeeds, the text InvokableRun hands back to the
\* loop, and the content of the tool message the loop appends for the
\* request, is the text the provider returned.
C20_OutputUnchanged ==
    \A p \in OpsAt("returned") :
        trace[p].val.err = NoErr =>
            /\ trace[p - 1].op = "callTool"
            /\ trace[p].val.output = ProviderText(trace[p - 1].val.answer.Content, 1)
            /\ trace[p + 1].op = "append"
            /\ trace[p + 1].val.Content = ProviderText(trace[p - 1].val.answer.Content, 1)

\* ------------------------------------------- C21: errors the provider returns
\* The tool message m reports a failed invocation.
ErrorFlagged(m) == m.Role = "tool" /\ IsPrefix(<<"Tool execution error: ">>, m.Content)

\* C21: whenever the provider answers a call-tool request with an error (a
\* transport error, or a result with IsError set), the tool message the loop
\* appends for that request is an error message, onToolResult is told
\* isError = true, and the run does not end with an error because of it.
C21_ProviderErrorIsFlagged ==
    \A p \in OpsAt("callTool") :
        (trace[p].val.answer.err # EmptyStr \/ trace[p].val.answer.IsError) =>
            LET s == trace[p].step
                i == trace[p].idx
            IN  /\ Len(trace) >= p + 2
                /\ trace[p + 2].op = "append"
                /\ ErrorFlagged(trace[p + 2].val)
                /\ ("onToolResult" \in handlers /\ Notified(s, i)) =>
                       /\ trace[p + 3].op = "onToolResult"
                       /\ trace[p + 3].val.isError
                /\ (pc = "done" /\ ret.err # NoErr) => trace[Len(trace)].op = "generateFailed"

\* --------------------------------------------------- C23: the system prompt
\* C23: with a system prompt configured, the history of every generate call
\* starts with a system message: the caller's history itself when that starts
\* with a system message, and otherwise the configured prompt as one system
\* message followed by the caller's history in its order.
C23_SystemPromptLeadsEveryGenerate ==
    systemPrompt # EmptyStr =>
        \A p \in OpsAt("generate") :
            LET h == trace[p].val
            IN  /\ h[1].Role = "system"
                /\ IF Len(messages) > 0 /\ messages[1].Role = "system"
                   THEN IsPrefix(messages, h)
                   ELSE /\ h[1] = SystemMessage(systemPrompt)
                        /\ IsPrefix(messages, Tail(h))

C23_Witness ==
    /\ systemPrompt # EmptyStr
    /\ pc = "done"
    /\ messages[1].Role = "system"
    /\ GenCount = 2
    /\ ret.msg = Sentinel
    /\ workingMessages[1] = SystemMessage(<<"old prompt">>)

\* ------------------------------------------- C24: the ids of tool messages
\* The position in the working history of the response of step s.
ResponseIndex(s) ==
    Len(trace[CHOOSE p \in OpsAt("generate") : trace[p].step = s].val) + 1

\* C24: the k-th tool message appended after a response is a tool-role
\* message with the id of the response's k-th tool call, whether the call
\* succeeded, failed or named no tool; it sits k places after the response in
\* the working history.
C24_ToolMessagesCarryRequestId ==
    \A s \in StepsGenerated :
        LET calls == ResponseAt(s).ToolCalls
            app == EntriesOf(s, "append")
            base == ResponseIndex(s)
        IN  /\ Len(app) <= Len(calls)
            /\ workingMessages[base] = ResponseAt(s)
            /\ \A k \in 1..Len(app) :
                  /\ app[k].idx = k
                  /\ app[k].val.Role = "tool"
                  /\ app[k].val.ToolCallID = calls[k].ID
                  /\ workingMessages[base + k] = app[k].val

C24_Witness ==
    \E s \in StepsEnded :
        LET app == EntriesOf(s, "append")
        IN  /\ Len(app) = 2
            /\ app[1].val = ToolNotFoundMessage(QualifiedName(FsServer, DeleteFile), 1)
            /\ app[2].val.ToolCallID = 2
            /\ ErrorFlagged(app[2].val)

\* ------------------------------------------------------- C25: cancellation
ContextCanceled == <<"context canceled">>

\* C25: when a call-tool request ends with the context's cancellation error,
\* InvokableRun returns "failed to call tool: context canceled", the loop
\* appends it as the error tool message of that request, and the run does not
\* end there: a finished run has completed the step of that request, and an
\* error it returned comes from a later generate call.
C25_CancellationIsInvocationError ==
    \A p \in OpsAt("callTool") :
        trace[p].val.answer = CallToolErr(ContextCanceled) =>
            LET s == trace[p].step
                i == trace[p].idx
                err == <<"failed to call tool: ">> \o ContextCanceled
            IN  /\ Len(trace) >= p + 2
                /\ trace[p + 1] = [op |-> "returned", step |-> s, idx |-> i,
                                    val |-> [output |-> EmptyStr, err |-> err, sent |-> TRUE]]
                /\ trace[p + 2] = [op |-> "append", step |-> s, idx |-> i,
                                    val |-> ToolExecutionError(err, ResponseAt(s).ToolCalls[i].ID)]
                /\ pc = "done" =>
                       /\ s < step
                       /\ ret.err # NoErr =>
                              /\ trace[Len(trace)].op = "generateFailed"
                              /\ trace[Len(trace)].step > s

C25_Witness ==
    /\ pc = "done"
    /\ ret.err = NoErr
    /\ ret.msg # Sentinel
    /\ \E p \in OpsAt("callTool") :
          /\ trace[p].val.answer = CallToolErr(ContextCanceled)
          /\ trace[p].idx = 1
          /\ Len(ResponseAt(trace[p].step).ToolCalls) = 2

\* --------------------------------------------------- C28: the caller's slice
\* C28: from the call on, the caller's sequence is the one it passed: one of
\* the caller's histories, of which the working copy is an extension (after
\* the system prompt, if one was added); the configured system prompt, the
\* model's responses and the tool messages are in the working copy only.
C28_CallerSliceUntouched ==
    pc # "idle" =>
        /\ messages \in CallerHistories
        /\ IsPrefix(WithSystemPrompt(systemPrompt, messages), workingMessages)
        /\ trace # <<>> => trace[1].val = WithSystemPrompt(systemPrompt, messages)
        /\ Len(workingMessages) - Len(WithSystemPrompt(systemPrompt, messages)) =
               Cardinality(OpsAt("generated")) + Cardinality(OpsAt("append"))
        /\ \A k \in 1..Len(messages) :
              /\ messages[k].Role \in {"user", "system"}
              /\ systemPrompt # EmptyStr => messages[k] # SystemMessage(systemPrompt)

C28_Witness ==
    /\ pc = "done"
    /\ systemPrompt # EmptyStr
    /\ messages = <<UserMessage(<<"hi">>)>>
    /\ Len(workingMessages) = 6

\* ------------------------------------------------ C22: configured headers
\* C22: every connection to a provider configured with a url carries each
\* header string of the provider's configuration on the requests sent over it
\* (start, initialize, list-tools, call-tool).
C22_HeadersOnEveryRequest ==
    \A s \in DOMAIN conns :
        LET sc == config.MCPServers[s]
        IN  Transport(sc) = "sse" =>
                \A k \in 1..Len(sc.Headers) : SeqContains(conns[s].headers, sc.Headers[k])

\* ------------------------------------------------ C26, C29: MaxSteps = 0
\* C26: with --max-steps 0 the steps never run out: the agent's loop condition
\* holds whatever number of tool-calling responses came before, so that no
\* finished run returns the fixed terminal message.
C26_StepBudgetNeverEndsRun ==
    (flags.MaxSteps = 0 /\ agentState = "ready") =>
        /\ \A s \in 0..maxSteps : LoopCond(s, maxSteps)
        /\ pc = "done" => ret.msg # Sentinel

\* C29: an agent made with MaxSteps = 0 has a budget of 20 steps: a run
\* against a model that always requests a tool call makes 20 generate calls,
\* never more, and then returns the fixed terminal message with no error.
C29_ZeroMeansTwentySteps ==
    (config.MaxSteps = 0 /\ agentState = "ready") =>
        /\ maxSteps = 20
        /\ GenCount <= 20
        /\ pc = "done" =>
               /\ GenCount = 20
               /\ ret = [msg |-> Sentinel, err |-> NoErr]

C29_Witness ==
    /\ config.MaxSteps = 0
    /\ pc = "done"
    /\ GenCount = 20
    /\ step = 20
    /\ ret.msg = Sentinel

\* ---------------------------------------- C27, C30: the session's history
\* The last n elements of a sequence.
LastN(seq, n) == SubSeq(seq, Len(seq) - n + 1, Len(seq))

\* C27: the history an interactive turn hands to GenerateWithLoop has at most
\* --message-window messages, and they are the last messages the session put
\* in its history, in the order it put them there.
C27_WindowedHistory ==
    (mainPc = "session" /\ pc # "idle") =>
        LET n == IF Len(sessionLog) < flags.MessageWindow
                 THEN Len(sessionLog) ELSE flags.MessageWindow
        IN  /\ Len(messages) <= flags.MessageWindow
            /\ messages = LastN(sessionLog, n)

C27_Witness ==
    /\ mainPc = "session"
    /\ pc = "loop"
    /\ flags.MessageWindow = 2
    /\ Len(sessionLog) = 3
    /\ messages = <<sessionLog[2], sessionLog[3]>>
    /\ messages[2] = UserMessage(PromptText(2))

\* GetPrompt returned `input`, which is no slash command.
PromptEntered(input) == input # lastInput /\ ~IsSlashCommand(input)

\* The history after the prompt `input` was appended and the window applied.
WithPrompt(input) == Prune(Append(messages, UserMessage(input)), flags.MessageWindow)

\* What a step of the session may do to the history, prompts aside: a run
\* that returns a message appends that message, a run that returns an error
\* appends nothing and the session waits for the next prompt, a slash
\* command changes nothing, the history changes in no other way, and it
\* holds no response with tool calls and no tool message.
HistoryFrame ==
    /\ (pc = "done" /\ pc' = "idle") =>
          /\ mainPc' = "session"
          /\ messages' = IF ret.err = NoErr THEN Append(messages, ret.msg) ELSE messages
    /\ (lastInput' # lastInput /\ IsSlashCommand(lastInput')) => messages' = messages
    /\ messages' # messages =>
          \/ pc = "done" /\ ret.err = NoErr /\ messages' = Append(messages, ret.msg)
          \/ pc = "idle" /\ pc' = "loop" /\ messages' = WithPrompt(lastInput')
    /\ \A k \in 1..Len(messages') :
          \/ messages'[k].Role = "user"
          \/ messages'[k].Role = "assistant" /\ messages'[k].ToolCalls = <<>>

\* C30 as stated: every prompt that is no slash command appends one user
\* message to the history, which is then pruned to the window; and the history
\* changes as HistoryFrame says.
C30_EveryPromptAppends ==
    [][mainPc = "session" =>
          /\ PromptEntered(lastInput') => (pc' = "loop" /\ messages' = WithPrompt(lastInput'))
          /\ HistoryFrame]_vars

\* C30 as amended: every prompt that is neither empty nor a slash command
\* appends one user message to the history, which is then pruned to the
\* window; an empty prompt changes nothing; and the history changes as
\* HistoryFrame says.
C30_NonEmptyPromptAppends ==
    [][mainPc = "session" =>
          /\ (PromptEntered(lastInput') /\ lastInput' # EmptyStr) =>
                 (pc' = "loop" /\ messages' = WithPrompt(lastInput'))
          /\ (PromptEntered(lastInput') /\ lastInput' = EmptyStr) => messages' = messages
          /\ HistoryFrame]_vars

C30_Witness ==
    /\ mainPc = "session"
    /\ pc = "idle"
    /\ flags.MessageWindow = DefaultMessageWindow
    /\ issued = 2
    /\ lastInput = <<"/", "clear">>
    /\ messages = <<UserMessage(PromptText(1)), UserMessage(PromptText(2)),
                    AssistantMessage(<<"text">>, <<>>)>>

====
